---------------------------- MODULE Spec2Model ----------------------------
(***************************************************************************)
(* A model of equity_model.py: the EquityModel object (its stock data, its *)
(* cached solution and its fitted flag), fit_model, plot_volatility, the   *)
(* two GJR-GARCH likelihood evaluators and the two constraint sets.        *)
(*                                                                         *)
(* Numbers.  The program computes in floating point; the model computes    *)
(* in exact rational arithmetic (a rational is a record [n, d] in lowest   *)
(* terms with d > 0).  Logarithms, square roots and the mixture density    *)
(* are not computed: a likelihood value is represented by the sequence of  *)
(* terms that the loop adds up (each term records the arguments it was     *)
(* evaluated at) and by whether the sum is negated on return.              *)
(*                                                                         *)
(* Indices.  Python sequences start at 0 and TLA+ sequences at 1; PyGet    *)
(* reads a sequence at a Python index (a negative index counts from the    *)
(* end, as in Python).                                                     *)
(***************************************************************************)
EXTENDS Integers, Sequences, FiniteSets

VARIABLES
    stock_data,         \* self._stock_data.adj_close, as the logarithm of each price
    _model_solution,    \* EquityModel._model_solution
    _model_fitted,      \* EquityModel._model_fitted
    outcome,            \* how the most recent method call ended
    last_fit_result,    \* history: the result the most recent returning fit produced
    params,             \* the parameter vector handed to an evaluator
    evaluation          \* what the most recent evaluator call produced

vars == <<stock_data, _model_solution, _model_fitted, outcome, last_fit_result,
          params, evaluation>>

---------------------------------------------------------------------------
(* Exact rational arithmetic.                                              *)

Abs(a) == IF a < 0 THEN -a ELSE a

RECURSIVE GCD(_, _)
GCD(a, b) == IF b = 0 THEN a ELSE GCD(b, a % b)

Rat(n, d) ==
    LET g == GCD(Abs(n), Abs(d))
        s == IF d < 0 THEN -1 ELSE 1
    IN  [n |-> (s * n) \div g, d |-> (s * d) \div g]

RInt(k) == [n |-> k, d |-> 1]
Zero == RInt(0)
One == RInt(1)

RAdd(a, b) ==
    LET l == (a.d \div GCD(a.d, b.d)) * b.d
    IN  Rat(a.n * (l \div a.d) + b.n * (l \div b.d), l)

RNeg(a) == [n |-> -a.n, d |-> a.d]
RSub(a, b) == RAdd(a, RNeg(b))

RMul(a, b) ==
    LET g1 == GCD(Abs(a.n), b.d)
        g2 == GCD(Abs(b.n), a.d)
    IN  Rat((a.n \div g1) * (b.n \div g2), (a.d \div g2) * (b.d \div g1))

RLt(a, b) == a.n * b.d < b.n * a.d
RLe(a, b) == a.n * b.d <= b.n * a.d

RSquare(a) == RMul(a, a)

---------------------------------------------------------------------------
(* Python lists.                                                           *)

PyInRange(seq, i) == -Len(seq) <= i /\ i < Len(seq)
PyGet(seq, i) == IF i < 0 THEN seq[Len(seq) + i + 1] ELSE seq[i + 1]

RECURSIVE RSum(_)
RSum(seq) == IF seq = << >> THEN Zero ELSE RAdd(Head(seq), RSum(Tail(seq)))

NaN == [n |-> 0, d |-> 0]
\* np.mean of a list; of the empty list it is nan (with a warning)
np_mean(seq) == IF seq = << >> THEN NaN ELSE RMul(RSum(seq), Rat(1, Len(seq)))

\* np.where(r < 0, 1, 0)
WhereNegative(r) == IF RLt(r, Zero) THEN One ELSE Zero
\* np.where(r, 1, 0): the truth value of a number
WhereTruthy(r) == IF r # Zero THEN One ELSE Zero

---------------------------------------------------------------------------
(* Inputs.                                                                 *)

MaxPrices == 4
LogPrices == {0, 1, 2}

RECURSIVE SeqsUpTo(_, _)
SeqsUpTo(S, k) ==
    IF k = 0 THEN {<< >>}
    ELSE LET shorter == SeqsUpTo(S, k - 1)
         IN  shorter \cup {Append(s, e) : s \in {t \in shorter : Len(t) = k - 1}, e \in S}

\* the adjusted-close histories a StockData may hold, as log prices
PriceSeries == SeqsUpTo(LogPrices, MaxPrices)

OmegaValues == {Zero, Rat(1, 2)}
AlphaValues == {Zero, Rat(1, 2)}
BetaValues == {Zero, Rat(1, 2)}
GammaValues == {RInt(-2), Rat(1, 2)}
MuValues == {Zero, Rat(1, 2)}
KappaValues == {Zero, One}
LambdaValues == {Zero, One}

ParamVectors5 ==
    {<<o, a, b, g, m>> : o \in OmegaValues, a \in AlphaValues, b \in BetaValues,
                         g \in GammaValues, m \in MuValues}
ParamVectors7 ==
    {v \o <<k, l>> : v \in ParamVectors5, k \in KappaValues, l \in LambdaValues}

---------------------------------------------------------------------------
(* The GJR-GARCH recursion, as both likelihood evaluators write it.        *)

\* omega + alpha*r0^2 + gamma*r0^2*I(r0 < 0) + beta*r0^2
InitialSquaredVolEstimate(p, data) ==
    LET r0sq == RSquare(PyGet(data, 0))
    IN  RAdd(RAdd(RAdd(PyGet(p, 0),
                       RMul(PyGet(p, 1), r0sq)),
                  RMul(RMul(PyGet(p, 3), r0sq), WhereNegative(PyGet(data, 0)))),
             RMul(PyGet(p, 2), r0sq))

\* omega + alpha*data[j]^2 + gamma*data[j]^2*I(data[j] < 0) + beta*current
NextSquaredVolEstimate(p, data, j, current) ==
    LET rsq == RSquare(PyGet(data, j))
    IN  RAdd(RAdd(RAdd(PyGet(p, 0),
                       RMul(PyGet(p, 1), rsq)),
                  RMul(RMul(PyGet(p, 3), rsq), WhereNegative(PyGet(data, j)))),
             RMul(PyGet(p, 2), current))

NoEvaluation == [raised |-> "", variances |-> << >>, terms |-> << >>, negated |-> FALSE]
RaisedIndexError == [NoEvaluation EXCEPT !.raised = "IndexError"]

---------------------------------------------------------------------------
(* _likelihood_function_normal                                             *)

\* NormalTerm with the return of the current index, data[i], in place of data[i-1]
NormalTermCurrentReturn(p, data, i, current) ==
    [r |-> PyGet(data, i), mu |-> PyGet(p, 4), var |-> current]

\* the term ((data[i-1] - mu)^2 / current) + 2*log(sqrt(current)) of iteration i
NormalTerm(p, data, i, current) ==
    [r |-> PyGet(data, i - 1), mu |-> PyGet(p, 4), var |-> current]

\* for i in range(i, n_observations): accumulate, then update the estimate
RECURSIVE NormalLoop(_, _, _, _)
NormalLoop(p, data, i, st) ==
    IF i >= Len(data) THEN st
    ELSE LET next == NextSquaredVolEstimate(p, data, i - 1, st.current)
         IN  NormalLoop(p, data, i + 1,
                        [terms |-> Append(st.terms, NormalTerm(p, data, i, st.current)),
                         current |-> next,
                         variances |-> Append(st.variances, next)])

_likelihood_function_normal(p, data) ==
    IF ~PyInRange(data, 0) THEN RaisedIndexError
    ELSE LET seed == InitialSquaredVolEstimate(p, data)
             st == NormalLoop(p, data, 1,
                              [terms |-> << >>, current |-> seed, variances |-> <<seed>>])
         IN  [raised |-> "", variances |-> st.variances, terms |-> st.terms,
              negated |-> FALSE]

---------------------------------------------------------------------------
(* _likelihood_function_normal_poisson_mixture                             *)

\* the term log(norm_poisson_mix_pdf(data[i], mu, sqrt(current), kappa, lambda))
MixtureTerm(p, data, i, current) ==
    [r |-> PyGet(data, i), mu |-> PyGet(p, 4), var |-> current,
     kappa |-> PyGet(p, 5), lambda |-> PyGet(p, 6)]

\* for i in range(i, n_observations): accumulate, then update from data[i - 1]
RECURSIVE MixtureLoop(_, _, _, _)
MixtureLoop(p, data, i, st) ==
    IF i >= Len(data) THEN st
    ELSE LET next == NextSquaredVolEstimate(p, data, i - 1, st.current)
         IN  MixtureLoop(p, data, i + 1,
                         [terms |-> Append(st.terms, MixtureTerm(p, data, i, st.current)),
                          current |-> next,
                          variances |-> Append(st.variances, next)])

_likelihood_function_normal_poisson_mixture(p, data) ==
    IF ~PyInRange(data, 0) THEN RaisedIndexError
    ELSE LET seed == InitialSquaredVolEstimate(p, data)
             st == MixtureLoop(p, data, 0,
                               [terms |-> << >>, current |-> seed, variances |-> <<seed>>])
         IN  [raised |-> "", variances |-> st.variances, terms |-> st.terms,
              negated |-> TRUE]

---------------------------------------------------------------------------
(* The constraint sets: each entry is {'type': ..., 'fun': lambda x: ...};  *)
(* the model gives the value of each fun at x.                             *)

Half == Rat(1, 2)

_likelihood_constraints_normal(x) ==
    << [type |-> "ineq",
        fun |-> RAdd(RSub(RSub(RNeg(PyGet(x, 1)), PyGet(x, 2)),
                          RMul(Half, PyGet(x, 3))), One)],
       [type |-> "ineq", fun |-> PyGet(x, 0)],
       [type |-> "ineq", fun |-> RAdd(PyGet(x, 1), PyGet(x, 3))],
       [type |-> "ineq", fun |-> PyGet(x, 2)] >>

\* the mixture set with alpha >= 0 in place of alpha + gamma >= 0
_likelihood_constraints_alpha_nonnegative(x) ==
    << [type |-> "ineq",
        fun |-> RAdd(RSub(RSub(RNeg(PyGet(x, 1)), PyGet(x, 2)),
                          RMul(Half, PyGet(x, 3))), One)],
       [type |-> "ineq", fun |-> PyGet(x, 0)],
       [type |-> "ineq", fun |-> PyGet(x, 1)],
       [type |-> "ineq", fun |-> PyGet(x, 2)],
       [type |-> "ineq", fun |-> PyGet(x, 5)],
       [type |-> "ineq", fun |-> PyGet(x, 6)] >>

_likelihood_constraints_normal_poisson_mix(x) ==
    << [type |-> "ineq",
        fun |-> RAdd(RSub(RSub(RNeg(PyGet(x, 1)), PyGet(x, 2)),
                          RMul(Half, PyGet(x, 3))), One)],
       [type |-> "ineq", fun |-> PyGet(x, 0)],
       [type |-> "ineq", fun |-> RAdd(PyGet(x, 1), PyGet(x, 3))],
       [type |-> "ineq", fun |-> PyGet(x, 2)],
       [type |-> "ineq", fun |-> PyGet(x, 5)],
       [type |-> "ineq", fun |-> PyGet(x, 6)] >>

---------------------------------------------------------------------------
(* StockData.get_log_returns: np.log(adj_close / adj_close.shift(1))[1:].  *)
(* The quotient of a price by its predecessor has the difference of the    *)
(* log prices as its logarithm; the first entry (no predecessor) is        *)
(* dropped by [1:].                                                        *)

get_log_returns(adj_close) ==
    IF Len(adj_close) < 2 THEN << >>
    ELSE [i \in 1..(Len(adj_close) - 1) |-> RInt(adj_close[i + 1] - adj_close[i])]

---------------------------------------------------------------------------
(* Values of the object model.                                             *)

None == [type |-> "NoneType"]

\* what scipy.optimize.minimize may hand back: any terminal vector, with
\* either value of the success flag
FittedVectors5 ==
    {<<Half, a, Half, g, Zero>> : a \in AlphaValues, g \in GammaValues}
FittedVectors7 == {v \o <<One, One>> : v \in FittedVectors5}
OptimizeResults(n) ==
    [type : {"OptimizeResult"},
     x : IF n = 5 THEN FittedVectors5 ELSE FittedVectors7,
     success : BOOLEAN]

NoOutcome ==
    [op |-> "none", model |-> "", kind |-> "", exc |-> "", value |-> None,
     path |-> << >>, minimized |-> FALSE, first_eval |-> NoEvaluation]

Selectors == {"normal", "normal poisson mixture", "generalized hyperbolic", "student t"}

---------------------------------------------------------------------------
(* EquityModel.fit_model                                                   *)

\* StoreSolution with the flag following the result's success flag
StoreSolutionIfConverged(solution) ==
    /\ _model_solution' = solution
    /\ _model_fitted' = solution.success

\* self._model_solution = solution; self._model_fitted = True
StoreSolution(solution) ==
    /\ _model_solution' = solution
    /\ _model_fitted' = TRUE

\* minimize(func, x0, constraints=cons, args=data) and what follows it.  The
\* minimizer evaluates func at x0 before anything else (first); an exception
\* of func leaves minimize and fit_model.  Otherwise the minimizer ends with
\* some result, converged or not, which is stored and returned.
MinimizeAndStore(model, n, first) ==
    IF first.raised # ""
    THEN /\ outcome' = [NoOutcome EXCEPT !.op = "fit_model", !.model = model,
                                         !.kind = "raised", !.exc = first.raised,
                                         !.minimized = TRUE, !.first_eval = first]
         /\ UNCHANGED <<_model_solution, _model_fitted, last_fit_result>>
    ELSE \E solution \in OptimizeResults(n) :
            /\ StoreSolution(solution)
            /\ outcome' = [NoOutcome EXCEPT !.op = "fit_model", !.model = model,
                                            !.kind = "returned", !.value = solution,
                                            !.minimized = TRUE, !.first_eval = first]
            /\ last_fit_result' = solution

fit_normal ==
    LET data == get_log_returns(stock_data)
        x0 == <<Rat(1, 1000), Rat(1, 20), Rat(4, 5), Rat(1, 50), np_mean(data)>>
    IN  MinimizeAndStore("normal", 5, _likelihood_function_normal(x0, data))

fit_normal_poisson_mixture ==
    LET data == get_log_returns(stock_data)
        x0 == <<Rat(1, 1000), Rat(1, 20), Rat(4, 5), Rat(1, 50), np_mean(data),
                Rat(1, 20), Rat(1, 2)>>
    IN  MinimizeAndStore("normal poisson mixture", 7,
                         _likelihood_function_normal_poisson_mixture(x0, data))

\* def _likelihood_constraints_generalized_hyperbolic(self): pass
_likelihood_constraints_generalized_hyperbolic == None

\* fit_generalized_hyperbolic ending like the other branches, with the flag set
fit_generalized_hyperbolic_sets_flag ==
    /\ outcome' = [NoOutcome EXCEPT !.op = "fit_model",
                                    !.model = "generalized hyperbolic",
                                    !.kind = "returned"]
    /\ _model_fitted' = TRUE
    /\ UNCHANGED <<_model_solution, last_fit_result>>

\* cons and func are bound and the method ends: it returns None
fit_generalized_hyperbolic ==
    LET cons == _likelihood_constraints_generalized_hyperbolic
    IN  /\ outcome' = [NoOutcome EXCEPT !.op = "fit_model",
                                        !.model = "generalized hyperbolic",
                                        !.kind = "returned", !.value = cons]
        /\ UNCHANGED <<_model_solution, _model_fitted, last_fit_result>>

\* no branch of the if/elif chain matches: the method ends and returns None
fit_unrecognised(model) ==
    /\ outcome' = [NoOutcome EXCEPT !.op = "fit_model", !.model = model,
                                    !.kind = "returned", !.value = None]
    /\ UNCHANGED <<_model_solution, _model_fitted, last_fit_result>>

fit_model(model) ==
    /\ CASE model = "normal" -> fit_normal
         [] model = "normal poisson mixture" -> fit_normal_poisson_mixture
         [] model = "generalized hyperbolic" -> fit_generalized_hyperbolic
         [] OTHER -> fit_unrecognised(model)
    /\ UNCHANGED <<stock_data, params, evaluation>>

---------------------------------------------------------------------------
(* EquityModel.plot_volatility: the list vol before np.sqrt is applied.    *)

\* omg + alp*data[0]^2 + gam*data[0]^2*np.where(data[0], 1, 0) + bet*data[0]^2
PlotInitialVol(x, data) ==
    LET r0sq == RSquare(PyGet(data, 0))
    IN  RAdd(RAdd(RAdd(PyGet(x, 0),
                       RMul(PyGet(x, 1), r0sq)),
                  RMul(RMul(PyGet(x, 3), r0sq), WhereTruthy(PyGet(data, 0)))),
             RMul(PyGet(x, 2), r0sq))

\* for i in range(i, len(data)): vol.append(omg + alp*data[i-1]^2
\*     + gam*data[i-1]^2*I(data[i-1] < 0) + bet*vol[i-2])
RECURSIVE PlotLoop(_, _, _, _)
PlotLoop(x, data, i, vol) ==
    IF i >= Len(data) THEN vol
    ELSE PlotLoop(x, data, i + 1,
                  Append(vol, NextSquaredVolEstimate(x, data, i - 1, PyGet(vol, i - 2))))

PlotVol(x, data) == PlotLoop(x, data, 2, <<PlotInitialVol(x, data)>>)

plot_volatility ==
    LET data == get_log_returns(stock_data)
        raised == IF _model_solution = None THEN "AttributeError"
                  ELSE IF ~PyInRange(data, 0) THEN "IndexError"
                  ELSE ""
    IN  /\ outcome' =
              IF raised # ""
              THEN [NoOutcome EXCEPT !.op = "plot_volatility", !.kind = "raised",
                                     !.exc = raised]
              ELSE [NoOutcome EXCEPT !.op = "plot_volatility", !.kind = "returned",
                                     !.path = PlotVol(_model_solution.x, data)]
        /\ UNCHANGED <<stock_data, _model_solution, _model_fitted, last_fit_result,
                       params, evaluation>>

---------------------------------------------------------------------------
(* The life of one EquityModel: constructed over some stock data, after    *)
(* which fit_model and plot_volatility are called in any order.            *)

NoCall == [fn |-> "none", out |-> NoEvaluation, cons |-> << >>]

Init ==
    /\ stock_data \in PriceSeries
    /\ _model_solution = None
    /\ _model_fitted = FALSE
    /\ outcome = NoOutcome
    /\ last_fit_result = None
    /\ params = << >>
    /\ evaluation = NoCall

Next ==
    \/ \E model \in Selectors : fit_model(model)
    \/ plot_volatility

Spec == Init /\ [][Next]_vars

---------------------------------------------------------------------------
(* The evaluators and constraint sets as the minimizer calls them: on the  *)
(* return series, at any parameter vector it chooses to probe.             *)

CallLikelihoodNormal ==
    /\ Len(params) = 5
    /\ evaluation' = [fn |-> "_likelihood_function_normal",
                      out |-> _likelihood_function_normal(params, get_log_returns(stock_data)),
                      cons |-> << >>]
    /\ UNCHANGED <<stock_data, _model_solution, _model_fitted, outcome,
                   last_fit_result, params>>

CallLikelihoodMixture ==
    /\ Len(params) = 7
    /\ evaluation' = [fn |-> "_likelihood_function_normal_poisson_mixture",
                      out |-> _likelihood_function_normal_poisson_mixture(
                                  params, get_log_returns(stock_data)),
                      cons |-> << >>]
    /\ UNCHANGED <<stock_data, _model_solution, _model_fitted, outcome,
                   last_fit_result, params>>

CallConstraintsNormal ==
    /\ Len(params) = 5
    /\ evaluation' = [fn |-> "_likelihood_constraints_normal",
                      out |-> NoEvaluation,
                      cons |-> _likelihood_constraints_normal(params)]
    /\ UNCHANGED <<stock_data, _model_solution, _model_fitted, outcome,
                   last_fit_result, params>>

CallConstraintsMixture ==
    /\ Len(params) = 7
    /\ evaluation' = [fn |-> "_likelihood_constraints_normal_poisson_mix",
                      out |-> NoEvaluation,
                      cons |-> _likelihood_constraints_normal_poisson_mix(params)]
    /\ UNCHANGED <<stock_data, _model_solution, _model_fitted, outcome,
                   last_fit_result, params>>

InitEval ==
    /\ stock_data \in PriceSeries
    /\ params \in ParamVectors5 \cup ParamVectors7
    /\ _model_solution = None
    /\ _model_fitted = FALSE
    /\ outcome = NoOutcome
    /\ last_fit_result = None
    /\ evaluation = NoCall

NextEval ==
    \/ CallLikelihoodNormal
    \/ CallLikelihoodMixture
    \/ CallConstraintsNormal
    \/ CallConstraintsMixture

SpecEval == InitEval /\ [][NextEval]_vars

---------------------------------------------------------------------------
(* What the claims speak of.                                               *)

\* the return series the evaluators and plot_volatility work on
ReturnsNow == get_log_returns(stock_data)

IsLikelihoodCall ==
    evaluation.fn \in {"_likelihood_function_normal",
                       "_likelihood_function_normal_poisson_mixture"}

\* omega > 0, alpha >= 0, beta >= 0, alpha + 0.5*gamma + beta < 1
ValidParameters(p) ==
    /\ RLt(Zero, p[1])
    /\ RLe(Zero, p[2])
    /\ RLe(Zero, p[3])
    /\ RLt(RAdd(RAdd(p[2], RMul(Rat(1, 2), p[4])), p[3]), One)

\* I(r < 0)
Leverage(r) == IF r.n < 0 THEN One ELSE Zero

\* The conditional variance series of the GJR recursion, counted from the
\* seed (t = 0); r is the return series, r[t] its t-th entry counted from 1:
\*   t = 0: omega + (alpha + gamma*I(r_0 < 0) + beta) * r_0^2
\*   t > 0: omega + (alpha + gamma*I(r_{t-1} < 0)) * r_{t-1}^2 + beta * var(t-1)
RECURSIVE GJRVariance(_, _, _)
GJRVariance(p, r, t) ==
    IF t = 0
    THEN RAdd(p[1], RMul(RAdd(RAdd(p[2], RMul(p[4], Leverage(r[1]))), p[3]),
                         RSquare(r[1])))
    ELSE RAdd(RAdd(p[1], RMul(RAdd(p[2], RMul(p[4], Leverage(r[t]))), RSquare(r[t]))),
              RMul(p[3], GJRVariance(p, r, t - 1)))

FitSelectors == {"normal", "normal poisson mixture"}

---------------------------------------------------------------------------
\* C1: for a return series of length >= 2 and a valid parameter vector
\* (omega > 0, alpha >= 0, beta >= 0, alpha + 0.5*gamma + beta < 1), every
\* conditional variance a likelihood evaluator computes (the seed and each
\* update) is strictly positive, and there is one per return observation.
C1_VariancesPositiveOnePerReturn ==
    (IsLikelihoodCall /\ Len(ReturnsNow) >= 2 /\ ValidParameters(params))
        => /\ \A k \in 1..Len(evaluation.out.variances) :
                  RLt(Zero, evaluation.out.variances[k])
           /\ Len(evaluation.out.variances) >= Len(ReturnsNow)

\* C2: for every parameter vector, every conditional variance a likelihood
\* evaluator divides by or takes the logarithm or square root of is floored
\* at a positive epsilon: none is zero or negative.
C2_VariancesFloored ==
    IsLikelihoodCall
        => \A k \in 1..Len(evaluation.out.terms) :
               RLt(Zero, evaluation.out.terms[k].var)

\* C3: for a return series of fewer than 2 observations fit_model ends with
\* an invalid-input error, and neither a seed variance nor a likelihood
\* value is computed nor the minimizer invoked.
C3_ShortSeriesRejected ==
    (outcome.op = "fit_model" /\ outcome.model \in FitSelectors /\ Len(ReturnsNow) < 2)
        => /\ outcome.kind = "raised"
           /\ outcome.exc = "InvalidInputError"
           /\ ~outcome.minimized
           /\ outcome.first_eval = NoEvaluation

\* C4: fit_model with the generalized-hyperbolic selector ends with an
\* explicit not-implemented error, never with a normal return.
C4_GeneralizedHyperbolicRaises ==
    (outcome.op = "fit_model" /\ outcome.model = "generalized hyperbolic")
        => /\ outcome.kind = "raised"
           /\ outcome.exc = "NotImplementedError"

\* C5: the Normal constraint set is exactly the four inequality functions
\* 1 - alpha - beta - 0.5*gamma, omega, alpha + gamma, beta, and the Mixture
\* set those four followed by kappa and lambda; each function returns that
\* expression's value at every parameter vector, and mu influences none.
ClaimedFour(x) ==
    LET omega == x[1]
        alpha == x[2]
        beta == x[3]
        gamma == x[4]
    IN  << [type |-> "ineq",
            fun |-> RSub(RSub(RSub(One, alpha), beta), RMul(Rat(1, 2), gamma))],
           [type |-> "ineq", fun |-> omega],
           [type |-> "ineq", fun |-> RAdd(alpha, gamma)],
           [type |-> "ineq", fun |-> beta] >>

ClaimedSix(x) ==
    ClaimedFour(x) \o << [type |-> "ineq", fun |-> x[6]], [type |-> "ineq", fun |-> x[7]] >>

C5_ConstraintSets ==
    /\ evaluation.fn = "_likelihood_constraints_normal"
           => /\ evaluation.cons = ClaimedFour(params)
              /\ \A mu \in MuValues :
                     _likelihood_constraints_normal([params EXCEPT ![5] = mu])
                         = evaluation.cons
    /\ evaluation.fn = "_likelihood_constraints_normal_poisson_mix"
           => /\ evaluation.cons = ClaimedSix(params)
              /\ \A mu \in MuValues :
                     _likelihood_constraints_normal_poisson_mix([params EXCEPT ![5] = mu])
                         = evaluation.cons

\* C5, its case: the mixture set evaluated at a vector with mu, kappa and
\* lambda set and the stationarity constraint violated.
C5_Witness ==
    /\ evaluation.fn = "_likelihood_constraints_normal_poisson_mix"
    /\ params[5] # Zero /\ params[6] # Zero /\ params[7] # Zero
    /\ RLt(evaluation.cons[1].fun, Zero)
    /\ Len(evaluation.cons) = 6

\* C6 as stated: a fit_model call changes no field of the instance nor of
\* its stock data.
C6_FitChangesNoField ==
    [][outcome'.op = "fit_model"
           => /\ stock_data' = stock_data
              /\ _model_solution' = _model_solution
              /\ _model_fitted' = _model_fitted]_vars

\* C6 as amended: a fit_model call never changes the stock data, and the
\* only fields it writes are _model_solution and _model_fitted, and those
\* only when a 'normal' or 'normal poisson mixture' fit returns: it then
\* stores the returned result and sets the flag.
C6_FitWritesOnlyItsCache ==
    [][outcome'.op = "fit_model"
           => /\ stock_data' = stock_data
              /\ (_model_solution' # _model_solution \/ _model_fitted' # _model_fitted)
                     => /\ outcome'.model \in FitSelectors
                        /\ outcome'.kind = "returned"
                        /\ _model_solution' = outcome'.value
                        /\ _model_fitted']_vars

\* C6, its case: a fit has returned and left its result in the instance.
C6_Witness ==
    /\ outcome.op = "fit_model" /\ outcome.model = "normal"
    /\ outcome.kind = "returned"
    /\ _model_solution = outcome.value
    /\ _model_solution # None

\* C7 as stated: the value _likelihood_function_normal returns for n returns
\* is the un-negated sum over t = 1..n-1 of the term that pairs the return
\* r[t-1] with variance t of the GJR recursion (the seed being variance 0).
C7_NormalPairsReturnWithNextVariance ==
    (evaluation.fn = "_likelihood_function_normal" /\ evaluation.out.raised = "")
        => /\ evaluation.out.terms =
                  [t \in 1..(Len(ReturnsNow) - 1) |->
                      [r |-> ReturnsNow[t], mu |-> params[5],
                       var |-> GJRVariance(params, ReturnsNow, t)]]
           /\ ~evaluation.out.negated

\* C7 as amended: the term of t = 1..n-1 pairs the return r[t-1] with
\* variance t-1 (the seed for t = 1), the variance in force before the
\* update made from r[t-1]; n-1 terms, no negation.
C7_NormalPairsReturnWithCurrentVariance ==
    (evaluation.fn = "_likelihood_function_normal" /\ evaluation.out.raised = "")
        => /\ evaluation.out.terms =
                  [t \in 1..(Len(ReturnsNow) - 1) |->
                      [r |-> ReturnsNow[t], mu |-> params[5],
                       var |-> GJRVariance(params, ReturnsNow, t - 1)]]
           /\ ~evaluation.out.negated

\* C7, its case: an evaluation over three returns whose second term carries
\* a variance other than variance 2.
C7_Witness ==
    /\ evaluation.fn = "_likelihood_function_normal"
    /\ Len(ReturnsNow) = 3
    /\ Len(evaluation.out.terms) = 2
    /\ evaluation.out.terms[2].var # GJRVariance(params, ReturnsNow, 2)
    /\ evaluation.out.terms[2].var # evaluation.out.terms[1].var

\* C8: the value _likelihood_function_normal_poisson_mixture returns is the
\* negated sum over t = 0..n-1 of the log-density term at return r[t] with
\* variance t of the GJR recursion, variance t >= 1 being computed from
\* r[t-1] and variance t-1.
C8_MixtureUsesGJRVariances ==
    (evaluation.fn = "_likelihood_function_normal_poisson_mixture"
        /\ evaluation.out.raised = "")
        => /\ evaluation.out.terms =
                  [t \in 1..Len(ReturnsNow) |->
                      [r |-> ReturnsNow[t], mu |-> params[5],
                       var |-> GJRVariance(params, ReturnsNow, t - 1),
                       kappa |-> params[6], lambda |-> params[7]]]
           /\ evaluation.out.negated

\* C9: the variance path plot_volatility rebuilds is the GJR series: its
\* first entry is the seed, and its k-th entry (k >= 1, counted from 0) is
\* omega + alpha*r[k-1]^2 + gamma*r[k-1]^2*I(r[k-1] < 0) + beta*vol[k-1].
C9_PlotPathIsGJRSeries ==
    (outcome.op = "plot_volatility" /\ outcome.kind = "returned")
        => LET x == _model_solution.x
               r == ReturnsNow
           IN  /\ outcome.path[1] = GJRVariance(x, r, 0)
               /\ \A j \in 2..Len(outcome.path) :
                      outcome.path[j] =
                          RAdd(RAdd(x[1], RMul(RAdd(x[2], RMul(x[4], Leverage(r[j - 1]))),
                                               RSquare(r[j - 1]))),
                               RMul(x[3], outcome.path[j - 1]))

\* C10: _model_fitted is True exactly when _model_solution holds a result,
\* which is the one the most recent returning 'normal' or 'normal poisson
\* mixture' call produced; the flag never goes back to False; a call with
\* another selector changes neither field; and a returning fit sets the flag
\* whatever the result's success flag.
C10_FittedFlagTracksSolution ==
    /\ [](/\ _model_fitted <=> (_model_solution # None)
          /\ _model_solution = last_fit_result)
    /\ [][/\ _model_fitted => _model_fitted'
          /\ (outcome'.op = "fit_model" /\ outcome'.model \notin FitSelectors)
                 => UNCHANGED <<_model_solution, _model_fitted>>
          /\ (outcome'.op = "fit_model" /\ outcome'.model \in FitSelectors
                 /\ outcome'.kind = "returned")
                 => _model_fitted' /\ _model_solution' = outcome'.value]_vars

\* C10, its case: a fit that did not converge left its result and the flag,
\* and a later call with the generalized-hyperbolic selector kept both.
C10_Witness ==
    /\ _model_fitted
    /\ _model_solution # None
    /\ ~_model_solution.success
    /\ outcome.op = "fit_model" /\ outcome.model = "generalized hyperbolic"

====
